---- MODULE Spec2Model ----
(***************************************************************************)
(* The offset ledger of pymusepipe's align_pipe_FS.AlignMusePointing: the  *)
(* per-exposure cross-correlation, initial-guess, extra and total offsets  *)
(* in pixel and arcsecond units, the flux normalisation record, and the    *)
(* offset table written to and read from disk.                             *)
(*                                                                         *)
(* Numbers: the program computes in floating point; the model computes     *)
(* the same expressions exactly, over integers.  Values stored in degrees  *)
(* (the table columns, the WCS scale matrix) are rationals <<num, den>>.   *)
(* The sample scale matrices are unimodular, so that the inverse taken by  *)
(* arcsec_to_pixel is exact.  numpy arrays are functions over 0..n-1; two  *)
(* attributes bound to one array object are kept equal and flagged by      *)
(* init_pixel_shared / init_arcsec_shared.                                 *)
(***************************************************************************)
EXTENDS Integers, Sequences, FiniteSets, TLC

VARIABLES
    self,         \* the AlignMusePointing object (its attributes)
    pc,           \* position in __init__, or "new" / "ready" / "raised"
    exc,          \* the exception the last call raised, or "none"
    disk,         \* the FITS tables on disk: file name -> table
    stage,        \* per exposure, the ledger state of spec section 4.7
    guess,        \* how the initial guess was last set: "none", "crosscorr", "zero", "table"
    saved_total,  \* per file on disk, total_off_arcsec of the ledger that wrote it
    calls,        \* number of calls made from outside so far
    norm_kwargs,  \* the keyword dictionary of the find_norm_factor call in progress
    worker,       \* per image, the position and the locals of the iteration working on it
    args,         \* the arguments of a module-level function being applied
    ret           \* what the function returned or raised, once applied

\* the variables of the function applications and of the iterations of find_norm_factor
\* taken apart; the calls on the object leave them alone
side == <<norm_kwargs, worker, args, ret>>
vars == <<self, pc, exc, disk, stage, guess, saved_total, calls,
         norm_kwargs, worker, args, ret>>

\* Number of calls from outside (constructions and public methods) in a run.
MaxCalls == 4

------------------------------------------------------------------------------
(* Python values *)

Range(n) == 0 .. (n - 1)
Len0(a) == Cardinality(DOMAIN a)
EmptyList == [i \in {} |-> 0]
\* a[nima] with Python's negative indices; n when the index is out of range
PyIndex(nima, n) == IF nima >= 0 /\ nima < n THEN nima
                    ELSE IF nima < 0 /\ nima + n >= 0 THEN nima + n
                    ELSE n

VAdd(a, b) == <<a[1] + b[1], a[2] + b[2]>>
zeros(n) == [i \in Range(n) |-> <<0, 0>>]

\* x / 3600. and x * 3600. on a value kept in degrees (a rational)
Div3600(x) == <<x, 3600>>
Mul3600(q) == (q[1] * 3600) \div q[2]

------------------------------------------------------------------------------
(* The input images: FITS files with a header (WCS, DATE-OBS) *)

Files == {"P01", "P02"}

DateObs(f) == IF f = "P01" THEN "2018-04-01T01:00" ELSE "2018-04-02T02:00"

\* an image whose header carries a scale matrix of determinant 0
Degenerate == "P03"
\* wcs.WCS(header).pixel_scale_matrix, in degrees per pixel
pixel_scale_matrix(f) ==
    IF f = "P01" THEN << <<Div3600(-1), Div3600(1)>>, <<Div3600(1), Div3600(0)>> >>
    ELSE IF f = Degenerate
    THEN << <<Div3600(1), Div3600(1)>>, <<Div3600(1), Div3600(1)>> >>
    ELSE << <<Div3600(1), Div3600(1)>>, <<Div3600(0), Div3600(1)>> >>

CRPIX(f) == IF f = "P01" THEN <<10, 20>> ELSE <<30, 40>>

OpenHDU(f) == [file |-> f, CRPIX1 |-> CRPIX(f)[1], CRPIX2 |-> CRPIX(f)[2]]
NoneHDU == [file |-> "None", CRPIX1 |-> 0, CRPIX2 |-> 0]

\* name_muse_images: the lists the constructor is given, each image once, in any order
NameLists ==
    {names \in UNION {[Range(n) -> Files] : n \in 1 .. Cardinality(Files)} :
        \A i, j \in DOMAIN names : i # j => names[i] # names[j]}
\* the image numbers a caller passes: those of the longest list, -1 and one too many
Nimas == -1 .. Cardinality(Files)

\* what find_cross_peak returns for the image (it depends on the pixel data only)
find_cross_peak(hdu) == IF hdu.file = "P01" THEN <<3, -2>> ELSE <<1, 4>>
\* The fit of get_image_norm_poly(musedata, refdata).beta for a shifted image and the
\* reference projected on it: a number that the pixel data and the shifted header
\* determine.  It is kept as the term <<"b0" or "b1", shifted hdu>>; 0. is <<"0.">>.
Float0 == <<"0.">>
get_image_norm_poly(offmuse_hdu) == << <<"b0", offmuse_hdu>>, <<"b1", offmuse_hdu>> >>

------------------------------------------------------------------------------
(* Coordinate conversion *)

Det(m) == m[1][1] * m[2][2] - m[1][2] * m[2][1]
\* np.linalg.inv
Inv(m) == << <<m[2][2] \div Det(m), (-m[1][2]) \div Det(m)>>,
             <<(-m[2][1]) \div Det(m), m[1][1] \div Det(m)>> >>
\* np.sum(dels * matrix[0, :]), np.sum(dels * matrix[1, :])
MatVec(m, v) == <<v[1] * m[1][1] + v[2] * m[1][2], v[1] * m[2][1] + v[2] * m[2][2]>>
\* input_wcs.pixel_scale_matrix * 3600.
Scale3600(hdu) ==
    LET m == pixel_scale_matrix(hdu.file)
    IN << <<Mul3600(m[1][1]), Mul3600(m[1][2])>>, <<Mul3600(m[2][1]), Mul3600(m[2][2])>> >>

\* the scale matrix applied as it is, without np.linalg.inv
arcsec_to_pixel_not_inverted(hdu, xy_arcsec) == MatVec(Scale3600(hdu), xy_arcsec)
arcsec_to_pixel(hdu, xy_arcsec) == MatVec(Inv(Scale3600(hdu)), xy_arcsec)
pixel_to_arcsec(hdu, xy_pixel) == MatVec(Scale3600(hdu), xy_pixel)

\* The failures of the two conversions.  np.linalg.inv raises LinAlgError on a matrix
\* that is exactly singular.  Both functions first build wcs.WCS(hdu.header) and read
\* its pixel_scale_matrix: astropy is not part of this source tree, and whether it
\* accepts a header with a singular matrix or rejects it (SingularMatrixError) is
\* left open: args.wcs holds which of the two the installed library does.
Singular(hdu) == Det(Scale3600(hdu)) = 0
WCSLibraries == {"accepts", "rejects"}
WCSError(hdu) ==
    IF Singular(hdu) /\ args.wcs = "rejects" THEN "SingularMatrixError" ELSE "none"
arcsec_to_pixel_exc(hdu) ==
    IF WCSError(hdu) # "none" THEN WCSError(hdu)
    ELSE IF Singular(hdu) THEN "LinAlgError"
    ELSE "none"
pixel_to_arcsec_exc(hdu) == WCSError(hdu)

------------------------------------------------------------------------------
(* The object and its files *)

\* a file name is its sequence of tokens, <<"OFFSET_TABLE", ".fits">>; None is <<>>
None == << >>
OffsetTableName == <<"OFFSET_TABLE", ".fits">>
Suffixes == {"", "_v2"}
\* name.replace(".fits", "{0}.fits".format(suffix))
ReplaceFits(name, suffix) ==
    LET RECURSIVE rep(_)
        rep(k) == IF k > Len(name) THEN << >>
                  ELSE (IF name[k] = ".fits"
                        THEN (IF suffix = "" THEN <<".fits">> ELSE <<suffix, ".fits">>)
                        ELSE <<name[k]>>) \o rep(k + 1)
    IN rep(1)
\* the names a caller passes for a table to read
InputNames == {None, <<"OFFSET_LIST", ".fits">>, OffsetTableName}

\* astropy Table: column name -> column
EmptyTable == [c \in {} |-> EmptyList]
SetColumn(t, c, col) == (c :> col) @@ t
NRows(t) == IF DOMAIN t = {} THEN 0 ELSE Len0(t[CHOOSE c \in DOMAIN t : TRUE])

Ok(s) == [self |-> s, exc |-> "none"]
Raise(s, e) == [self |-> s, exc |-> e]

\* the attributes before __init__ has run
NoObject ==
    [nimages |-> 0, list_muse_images |-> EmptyList, list_muse_hdu |-> EmptyList,
     list_offmuse_hdu |-> EmptyList, plot |-> TRUE,
     cross_off_pixel |-> EmptyList, extra_off_pixel |-> EmptyList,
     init_off_pixel |-> EmptyList, total_off_pixel |-> EmptyList,
     cross_off_arcsec |-> EmptyList, extra_off_arcsec |-> EmptyList,
     init_off_arcsec |-> EmptyList, total_off_arcsec |-> EmptyList,
     init_pixel_shared |-> FALSE, init_arcsec_shared |-> FALSE,
     ima_polynorm |-> EmptyList, ima_normfactor |-> EmptyList, ima_dateobs |-> EmptyList,
     name_input_table |-> None, offset_table |-> EmptyTable,
     name_output_table |-> None, suffix |-> ""]

\* __init__ up to the branch on checkmode: the arrays are allocated, the images opened
Allocate(names) ==
    LET n == Len0(names)
    IN [NoObject EXCEPT
          !.nimages = n,
          !.list_muse_images = names,
          !.list_muse_hdu = [i \in Range(n) |-> OpenHDU(names[i])],
          !.list_offmuse_hdu = [i \in Range(n) |-> NoneHDU],
          !.cross_off_pixel = zeros(n), !.extra_off_pixel = zeros(n),
          !.init_off_pixel = zeros(n), !.total_off_pixel = zeros(n),
          !.cross_off_arcsec = zeros(n), !.extra_off_arcsec = zeros(n),
          !.init_off_arcsec = zeros(n), !.total_off_arcsec = zeros(n),
          !.ima_polynorm = [i \in Range(n) |-> <<Float0, Float0>>],
          !.ima_normfactor = [i \in Range(n) |-> Float0]]

\* one iteration of find_ncross_peak.
\* cross_off_pixel is written in place, so an init_off_pixel bound to it follows.
find_ncross_peak_step(s, nima) ==
    LET pix == [s.cross_off_pixel EXCEPT ![nima] = find_cross_peak(s.list_muse_hdu[nima])]
        arc == [s.cross_off_arcsec EXCEPT
                   ![nima] = pixel_to_arcsec(s.list_muse_hdu[nima], pix[nima])]
    IN [s EXCEPT !.cross_off_pixel = pix,
                 !.cross_off_arcsec = arc,
                 !.init_off_pixel = IF s.init_pixel_shared THEN pix ELSE @,
                 !.init_off_arcsec = IF s.init_arcsec_shared THEN arc ELSE @]

open_offset_table(name_table) ==
    IF name_table = None
    THEN [exc |-> "TypeError", exist |-> FALSE, table |-> EmptyTable]
    ELSE IF name_table \notin DOMAIN disk
    THEN [exc |-> "none", exist |-> FALSE, table |-> EmptyTable]
    ELSE [exc |-> "none", exist |-> TRUE, table |-> disk[name_table]]

\* the table columns taken as they are, in degrees: the factor 3600. left out
TableOffsetsDegrees(t) ==
    [k \in Range(NRows(t)) |->
        <<t["RA_OFFSET"][k][1] \div t["RA_OFFSET"][k][2],
          t["DEC_OFFSET"][k][1] \div t["DEC_OFFSET"][k][2]>>]

\* np.vstack((table['RA_OFFSET'], table['DEC_OFFSET'])).T * 3600.
TableOffsetsArcsec(t) ==
    [k \in Range(NRows(t)) |-> <<Mul3600(t["RA_OFFSET"][k]), Mul3600(t["DEC_OFFSET"][k])>>]

init_guess_offset(s, firstguess, name_input_table) ==
    LET fg == IF firstguess \notin {"crosscorr", "fits"} THEN "crosscorr" ELSE firstguess
    IN IF fg = "crosscorr"
       THEN Ok([s EXCEPT !.init_off_arcsec = s.cross_off_arcsec,
                         !.init_off_pixel = s.cross_off_pixel,
                         !.init_arcsec_shared = TRUE,
                         !.init_pixel_shared = TRUE])
       ELSE LET s1 == [s EXCEPT !.name_input_table = name_input_table]
                r == open_offset_table(name_input_table)
                s2 == [s1 EXCEPT !.offset_table = r.table]
            IN IF r.exc # "none" THEN Raise(s1, r.exc)
               ELSE IF ~r.exist
               THEN \* init_off_pixel *= 0. ; init_off_arcsec *= 0.  (in place)
                    Ok([s2 EXCEPT
                          !.init_off_pixel = zeros(Len0(@)),
                          !.init_off_arcsec = zeros(Len0(@)),
                          !.cross_off_pixel =
                              IF s.init_pixel_shared THEN zeros(Len0(@)) ELSE @,
                          !.cross_off_arcsec =
                              IF s.init_arcsec_shared THEN zeros(Len0(@)) ELSE @])
               ELSE LET arc == TableOffsetsArcsec(r.table)
                        \* the loop stops with IndexError at the first nima without a row
                        pix == [i \in Range(Len0(s.init_off_pixel)) |->
                                   IF i < Len0(arc)
                                   THEN arcsec_to_pixel(s.list_muse_hdu[i], arc[i])
                                   ELSE s.init_off_pixel[i]]
                        s3 == [s2 EXCEPT
                                 !.init_off_arcsec = arc,
                                 !.init_arcsec_shared = FALSE,
                                 !.init_off_pixel = pix,
                                 !.cross_off_pixel = IF s.init_pixel_shared THEN pix ELSE @]
                    IN IF Len0(arc) < s.nimages THEN Raise(s3, "IndexError") ELSE Ok(s3)

\* the extra offset added to the total already stored, not to the initial guess
add_user_arc_offset_accumulating(s, extra_arcsec, nima) ==
    LET k == PyIndex(nima, s.nimages)
    IN IF k = s.nimages THEN Raise(s, "IndexError")
       ELSE LET tot == VAdd(s.total_off_arcsec[k], extra_arcsec)
            IN Ok([s EXCEPT
                     !.extra_off_arcsec[k] = extra_arcsec,
                     !.total_off_arcsec[k] = tot,
                     !.extra_off_pixel[k] =
                         arcsec_to_pixel(s.list_muse_hdu[k], extra_arcsec),
                     !.total_off_pixel[k] =
                         arcsec_to_pixel(s.list_muse_hdu[k], tot)])

_add_user_arc_offset(s, extra_arcsec, nima) ==
    LET k == PyIndex(nima, s.nimages)
        ki == PyIndex(nima, Len0(s.init_off_arcsec))
    IN IF k = s.nimages THEN Raise(s, "IndexError")
       ELSE LET s1 == [s EXCEPT !.extra_off_arcsec[k] = extra_arcsec]
            IN IF ki = Len0(s.init_off_arcsec) THEN Raise(s1, "IndexError")
               ELSE LET tot == VAdd(s.init_off_arcsec[ki], extra_arcsec)
                        s2 == [s1 EXCEPT !.total_off_arcsec[k] = tot]
                    IN IF arcsec_to_pixel_exc(s.list_muse_hdu[k]) # "none"
                       THEN Raise(s2, arcsec_to_pixel_exc(s.list_muse_hdu[k]))
                       ELSE Ok([s2 EXCEPT
                                  !.extra_off_pixel[k] =
                                      arcsec_to_pixel(s.list_muse_hdu[k], extra_arcsec),
                                  !.total_off_pixel[k] =
                                      arcsec_to_pixel(s.list_muse_hdu[k], tot)])

\* the shift taken from the image shifted before, not from the input image
shift_of_shifted(s, nima) ==
    LET k == PyIndex(nima, s.nimages)
    IN IF k = s.nimages THEN Raise(s, "IndexError")
       ELSE LET hdr == IF s.list_offmuse_hdu[k] = NoneHDU THEN s.list_muse_hdu[k]
                       ELSE s.list_offmuse_hdu[k]
                newhdr == [hdr EXCEPT !.CRPIX1 = @ - s.total_off_pixel[k][1],
                                      !.CRPIX2 = @ - s.total_off_pixel[k][2]]
            IN Ok([s EXCEPT !.list_offmuse_hdu[k] = newhdr])

shift(s, nima) ==
    LET k == PyIndex(nima, s.nimages)
    IN IF k = s.nimages THEN Raise(s, "IndexError")
       ELSE LET hdr == s.list_muse_hdu[k]
                newhdr == [hdr EXCEPT !.CRPIX1 = @ - s.total_off_pixel[k][1],
                                      !.CRPIX2 = @ - s.total_off_pixel[k][2]]
            IN Ok([s EXCEPT !.list_offmuse_hdu[k] = newhdr])

shift_arcsecond(s, extra_arcsec, nima) ==
    LET r == _add_user_arc_offset(s, extra_arcsec, nima)
    IN IF r.exc # "none" THEN r ELSE shift(r.self, nima)

\* compare(): with normalise=True the fit of get_image_norm_poly is stored
compare(s, nima) ==
    [s EXCEPT !.ima_polynorm[nima] = get_image_norm_poly(s.list_offmuse_hdu[nima])]

\* keyword arguments: keyword -> value
NoKwargs == [k \in {} |-> 0]
ExtraArcsecs == {<<0, 0>>, <<1, -2>>}
ExtraPixels == {<<2, 1>>}
RunKwargs ==
    {NoKwargs, [plot |-> FALSE]} \cup {[extra_arcsec |-> e] : e \in ExtraArcsecs \ {<<0, 0>>}}
                                \cup {[extra_pixel |-> p] : p \in ExtraPixels}

\* run(nima, **kwargs)
run(s, nima, kwargs) ==
    IF nima \notin Range(s.nimages) THEN Ok(s)
    ELSE LET s1 == [s EXCEPT !.plot = IF "plot" \in DOMAIN kwargs THEN kwargs.plot ELSE @]
             extra_arcsec ==
                 IF "extra_pixel" \in DOMAIN kwargs
                 THEN pixel_to_arcsec(s.list_muse_hdu[nima], kwargs.extra_pixel)
                 ELSE IF "extra_arcsec" \in DOMAIN kwargs THEN kwargs.extra_arcsec
                 ELSE <<0, 0>>
             r == shift_arcsecond(s1, extra_arcsec, nima)
         IN IF r.exc # "none" THEN r
            ELSE IF s1.plot THEN Ok(compare(r.self, nima))
            ELSE r

\* find_norm_factor, one iteration: the extra offset taken out of the keywords
\* (kwargs.pop), in arcseconds, and the keywords left for the iterations to come
PopExtra(kw, hdu) ==
    IF "extra_pixel" \in DOMAIN kw
    THEN [extra_arcsec |-> pixel_to_arcsec(hdu, kw.extra_pixel),
          kwargs |-> [k \in DOMAIN kw \ {"extra_pixel"} |-> kw[k]]]
    ELSE [extra_arcsec |-> IF "extra_arcsec" \in DOMAIN kw THEN kw.extra_arcsec ELSE <<0, 0>>,
          kwargs |-> [k \in DOMAIN kw \ {"extra_arcsec"} |-> kw[k]]]

\* find_norm_factor, one iteration: the fit of the shifted image stored
StoreNorm(s, nima) ==
    LET polypar == get_image_norm_poly(s.list_offmuse_hdu[nima])
    IN [s EXCEPT !.ima_polynorm[nima] = polypar, !.ima_normfactor[nima] = polypar[2]]

\* find_norm_factor(**kwargs)
find_norm_factor(s, kw) ==
    LET RECURSIVE loop(_, _, _)
        loop(s1, kw1, nima) ==
            IF nima >= s1.nimages THEN Ok(s1)
            ELSE LET p == PopExtra(kw1, s1.list_muse_hdu[nima])
                     r == shift_arcsecond(s1, p.extra_arcsec, nima)
                 IN IF r.exc # "none" THEN r
                    ELSE loop(StoreNorm(r.self, nima), p.kwargs, nima + 1)
    IN loop(s, kw, 0)

\* find_ncross_peak()
find_ncross_peak(s) ==
    LET RECURSIVE loop(_, _)
        loop(s1, nima) == IF nima >= s1.nimages THEN s1
                          ELSE loop(find_ncross_peak_step(s1, nima), nima + 1)
    IN loop(s, 0)

\* __init__: the first guess from the cross-correlation and the totals made from it
FirstGuessAndTotals(s) ==
    LET s1 == init_guess_offset(s, "crosscorr", <<"OFFSET_LIST", ".fits">>).self
    IN [s1 EXCEPT
          !.total_off_arcsec =
              [i \in Range(s1.nimages) |->
                  VAdd(s1.init_off_arcsec[i], s1.extra_off_arcsec[i])],
          !.total_off_pixel =
              [i \in Range(s1.nimages) |->
                  VAdd(s1.init_off_pixel[i], s1.extra_off_pixel[i])]]

\* the columns save_fits_offset_table sets, in its order; the last one raises
\* ValueError when ima_dateobs has not one entry per row
LedgerColumns(s, fits_table) ==
    LET n == Len0(s.total_off_arcsec)
        t1 == SetColumn(fits_table, "RA_OFFSET",
                        [i \in Range(n) |-> Div3600(s.total_off_arcsec[i][1])])
        t2 == SetColumn(t1, "DEC_OFFSET",
                        [i \in Range(n) |-> Div3600(s.total_off_arcsec[i][2])])
        t3 == SetColumn(t2, "RA_CROSS_OFFSET",
                        [i \in Range(n) |-> Div3600(s.cross_off_arcsec[i][1])])
        t4 == SetColumn(t3, "DEC_CROSS_OFFSET",
                        [i \in Range(n) |-> Div3600(s.cross_off_arcsec[i][2])])
        t5 == SetColumn(t4, "FLUX_SCALE", s.ima_normfactor)
    IN SetColumn(t5, "DATE_OBS", s.ima_dateobs)

\* the table save_fits_offset_table starts from, once the existing one has been read
StartTable(read_table) == EmptyTable

save_fits_offset_table(s, name_output_table, overwrite, suffix) ==
    LET name == IF name_output_table = None THEN s.name_input_table ELSE name_output_table
        out == ReplaceFits(name, suffix)
        s1 == [s EXCEPT !.suffix = suffix, !.name_output_table = out]
        r == open_offset_table(out)
        fits_table0 == StartTable(r.table)
        fits_table1 ==
            IF "RA_OFFSET" \in DOMAIN fits_table0 /\ "RA_OFFSET_ORIG" \notin DOMAIN fits_table0
            THEN SetColumn(SetColumn(fits_table0, "RA_OFFSET_ORIG", fits_table0["RA_OFFSET"]),
                           "DEC_OFFSET_ORIG", fits_table0["DEC_OFFSET"])
            ELSE fits_table0
        fits_table == LedgerColumns(s1, fits_table1)
    IN IF name = None THEN [self |-> s, exc |-> "AttributeError", wrote |-> FALSE, disk |-> disk]
       ELSE IF Len0(s.ima_dateobs) # Len0(s.total_off_arcsec)
       THEN [self |-> s1, exc |-> "ValueError", wrote |-> FALSE, disk |-> disk]
       ELSE IF r.exist /\ ~overwrite
       THEN [self |-> s1, exc |-> "none", wrote |-> FALSE, disk |-> disk]
       ELSE [self |-> [s1 EXCEPT !.name_output_table = name], exc |-> "none",
             wrote |-> TRUE, disk |-> (out :> fits_table) @@ disk]

------------------------------------------------------------------------------
(* The ledger states of an exposure, and the calls *)

Stages == <<"Uninitialized", "CrossCorrelated", "InitialGuessSet", "ShiftApplied", "Normalized">>
StageNo(st) == CHOOSE k \in 1 .. Len(Stages) : Stages[k] = st

Idle == pc.at \in {"new", "ready", "raised"}
At(where, nima) == [pc EXCEPT !.at = where, !.nima = nima]
\* __init__ with the fit run on every image without the shift before it
CtorNextWithoutShift(at, nima, n) ==
    IF at = "find_ncross_peak"
    THEN (IF nima + 1 < n THEN At(at, nima + 1) ELSE At("init_guess_offset", 0))
    ELSE IF at = "init_guess_offset" THEN At("get_image_norm_poly", 0)
    ELSE IF at = "get_image_norm_poly"
    THEN (IF nima + 1 < n THEN At("get_image_norm_poly", nima + 1) ELSE At("DATE-OBS", 0))
    ELSE At("ready", 0)

\* the next position of __init__ (checkmode False) after the step at `at` for image nima
CtorNext(at, nima, n) ==
    IF at = "find_ncross_peak"
    THEN (IF nima + 1 < n THEN At(at, nima + 1) ELSE At("init_guess_offset", 0))
    ELSE IF at = "init_guess_offset" THEN At("shift_arcsecond", 0)
    ELSE IF at = "shift_arcsecond" THEN At("get_image_norm_poly", nima)
    ELSE IF at = "get_image_norm_poly"
    THEN (IF nima + 1 < n THEN At("shift_arcsecond", nima + 1) ELSE At("DATE-OBS", 0))
    ELSE At("ready", 0)

Init ==
    /\ self = NoObject
    /\ pc = [at |-> "new", nima |-> 0, checkmode |-> FALSE]
    /\ exc = "none"
    /\ disk = [f \in {} |-> EmptyTable]
    /\ stage = EmptyList
    /\ guess = "none"
    /\ saved_total = [f \in {} |-> EmptyList]
    /\ calls = 0
    /\ norm_kwargs = NoKwargs
    /\ worker = EmptyList
    /\ args = << >>
    /\ ret = << >>

\* AlignMusePointing(name_reference, name_muse_images=names, checkmode=..., name_offset_table=...)
Construct(names, checkmode, name_offset_table) ==
    /\ Idle
    /\ calls < MaxCalls
    /\ calls' = calls + 1
    /\ UNCHANGED <<disk, saved_total>>
    /\ IF ~checkmode
       THEN /\ self' = Allocate(names)
            /\ pc' = [at |-> "find_ncross_peak", nima |-> 0, checkmode |-> FALSE]
            /\ exc' = "none"
            /\ stage' = [i \in Range(Len0(names)) |-> "Uninitialized"]
            /\ guess' = "none"
       ELSE LET r == init_guess_offset(Allocate(names), "fits", name_offset_table)
            IN IF r.exc # "none"
               THEN /\ self' = NoObject
                    /\ pc' = [at |-> "raised", nima |-> 0, checkmode |-> TRUE]
                    /\ exc' = r.exc
                    /\ stage' = EmptyList
                    /\ guess' = "none"
               ELSE /\ self' = r.self
                    /\ pc' = [at |-> "ready", nima |-> 0, checkmode |-> TRUE]
                    /\ exc' = "none"
                    /\ stage' = [i \in Range(Len0(names)) |-> "InitialGuessSet"]
                    /\ guess' = IF name_offset_table \in DOMAIN disk THEN "table" ELSE "zero"
    /\ UNCHANGED side

\* __init__: one iteration of find_ncross_peak
CtorCrossPeak ==
    /\ pc.at = "find_ncross_peak"
    /\ self' = find_ncross_peak_step(self, pc.nima)
    /\ stage' = [stage EXCEPT ![pc.nima] = "CrossCorrelated"]
    /\ pc' = CtorNext(pc.at, pc.nima, self.nimages)
    /\ UNCHANGED <<exc, disk, guess, saved_total, calls>>
    /\ UNCHANGED side

\* __init__: the first guess from the cross-correlation, and the totals
CtorInitGuess ==
    /\ pc.at = "init_guess_offset"
    /\ self' = FirstGuessAndTotals(self)
    /\ stage' = [i \in DOMAIN stage |-> "InitialGuessSet"]
    /\ guess' = "crosscorr"
    /\ pc' = CtorNext(pc.at, pc.nima, self.nimages)
    /\ UNCHANGED <<exc, disk, saved_total, calls>>
    /\ UNCHANGED side

\* __init__, find_norm_factor(): the shift of image nima, no extra offset given
\* An exception leaves __init__ and no object is bound.
CtorShift ==
    /\ pc.at = "shift_arcsecond"
    /\ LET r == shift_arcsecond(self, <<0, 0>>, pc.nima)
       IN IF r.exc = "none"
          THEN /\ self' = r.self
               /\ stage' = [stage EXCEPT ![pc.nima] = "ShiftApplied"]
               /\ pc' = CtorNext(pc.at, pc.nima, self.nimages)
               /\ UNCHANGED <<exc, guess>>
          ELSE /\ self' = NoObject
               /\ stage' = EmptyList
               /\ pc' = At("raised", 0)
               /\ exc' = r.exc
               /\ guess' = "none"
    /\ UNCHANGED <<disk, saved_total, calls>>
    /\ UNCHANGED side

\* __init__, find_norm_factor(): the normalisation of image nima
CtorNormalize ==
    /\ pc.at = "get_image_norm_poly"
    /\ self' = StoreNorm(self, pc.nima)
    /\ stage' = [stage EXCEPT ![pc.nima] = "Normalized"]
    /\ pc' = CtorNext(pc.at, pc.nima, self.nimages)
    /\ UNCHANGED <<exc, disk, guess, saved_total, calls>>
    /\ UNCHANGED side

\* __init__: DATE-OBS of every input image
CtorDateObs ==
    /\ pc.at = "DATE-OBS"
    /\ self' = [self EXCEPT !.ima_dateobs =
                   [i \in Range(self.nimages) |-> DateObs(self.list_muse_images[i])]]
    /\ pc' = CtorNext(pc.at, pc.nima, self.nimages)
    /\ UNCHANGED <<exc, disk, stage, guess, saved_total, calls>>
    /\ UNCHANGED side

Ctor == CtorCrossPeak \/ CtorInitGuess \/ CtorShift \/ CtorNormalize \/ CtorDateObs

Callable == pc.at = "ready" /\ calls < MaxCalls

CallInitGuessOffset(firstguess, name_input_table) ==
    /\ Callable
    /\ calls' = calls + 1
    /\ LET r == init_guess_offset(self, firstguess, name_input_table)
           rows == Len0(r.self.init_off_arcsec)
       IN /\ self' = r.self
          /\ exc' = r.exc
          /\ stage' = IF r.exc = "TypeError" THEN stage
                      ELSE [i \in DOMAIN stage |->
                              IF i < rows THEN "InitialGuessSet" ELSE stage[i]]
          /\ guess' = IF r.exc = "TypeError" THEN guess
                      ELSE IF firstguess # "fits" THEN "crosscorr"
                      ELSE IF name_input_table \in DOMAIN disk THEN "table" ELSE "zero"
    /\ UNCHANGED <<pc, disk, saved_total>>
    /\ UNCHANGED side

CallShiftArcsecond(extra_arcsec, nima) ==
    /\ Callable
    /\ calls' = calls + 1
    /\ LET r == shift_arcsecond(self, extra_arcsec, nima)
       IN /\ self' = r.self
          /\ exc' = r.exc
          /\ stage' = IF r.exc = "none"
                      THEN [stage EXCEPT ![PyIndex(nima, self.nimages)] = "ShiftApplied"]
                      ELSE stage
    /\ UNCHANGED <<pc, disk, guess, saved_total>>
    /\ UNCHANGED side

CallRun(nima, kwargs) ==
    /\ Callable
    /\ calls' = calls + 1
    /\ LET r == run(self, nima, kwargs)
       IN /\ self' = r.self
          /\ exc' = r.exc
          /\ stage' = IF r.exc = "none" /\ nima \in Range(self.nimages)
                      THEN [stage EXCEPT ![nima] = IF r.self.plot THEN "Normalized"
                                                   ELSE "ShiftApplied"]
                      ELSE stage
    /\ UNCHANGED <<pc, disk, guess, saved_total>>
    /\ UNCHANGED side

CallSave(name_output_table, overwrite, suffix) ==
    /\ Callable
    /\ calls' = calls + 1
    /\ LET r == save_fits_offset_table(self, name_output_table, overwrite, suffix)
       IN /\ self' = r.self
          /\ exc' = r.exc
          /\ disk' = r.disk
          /\ saved_total' = IF r.wrote
                            THEN (ReplaceFits(name_output_table, suffix) :> self.total_off_arcsec)
                                 @@ saved_total
                            ELSE saved_total
    /\ UNCHANGED <<pc, stage, guess>>
    /\ UNCHANGED side

Next ==
    \/ \E names \in NameLists : Construct(names, FALSE, None)
    \/ \E names \in NameLists, name \in InputNames : Construct(names, TRUE, name)
    \/ Ctor
    \/ \E firstguess \in {"crosscorr", "guess"} :
          CallInitGuessOffset(firstguess, <<"OFFSET_LIST", ".fits">>)
    \/ \E name \in InputNames : CallInitGuessOffset("fits", name)
    \/ \E e \in ExtraArcsecs, nima \in Nimas : CallShiftArcsecond(e, nima)
    \/ \E nima \in Nimas, kwargs \in RunKwargs : CallRun(nima, kwargs)
    \/ \E overwrite \in BOOLEAN, suffix \in Suffixes :
          CallSave(OffsetTableName, overwrite, suffix)

Spec == Init /\ [][Next]_vars

\* __init__ runs to its end once entered: every step of it is a call that returns
FairSpec == Spec /\ WF_vars(Ctor)

------------------------------------------------------------------------------
(* The work of __init__ on each image, one worker per image: the iterations of    *)
(* find_ncross_peak side by side, then the first guess, then the iterations of    *)
(* find_norm_factor side by side, sharing its keyword dictionary                  *)

\* the keywords find_norm_factor is called with
NormKwargs == {NoKwargs} \cup {[extra_arcsec |-> e] : e \in ExtraArcsecs \ {<<0, 0>>}}
                         \cup {[extra_pixel |-> p] : p \in ExtraPixels}

WorkerAt(i, where) == i \in DOMAIN worker /\ worker[i].at = where
WorkerTo(i, where) == [worker EXCEPT ![i].at = where]
OnlyLedgerAndWorkers == UNCHANGED <<pc, exc, disk, stage, guess, saved_total, calls, args, ret>>

ParInit ==
    \E names \in NameLists, kw \in NormKwargs :
        /\ self = Allocate(names)
        /\ norm_kwargs = kw
        /\ worker = [i \in Range(Len0(names)) |->
                        [at |-> "find_cross_peak", extra_arcsec |-> <<0, 0>>]]
        /\ args = [names |-> names, kwargs |-> kw]
        /\ ret = << >>
        /\ pc = [at |-> "workers", nima |-> 0, checkmode |-> FALSE]
        /\ exc = "none"
        /\ disk = [f \in {} |-> EmptyTable]
        /\ stage = EmptyList
        /\ guess = "none"
        /\ saved_total = [f \in {} |-> EmptyList]
        /\ calls = 0

\* find_ncross_peak, the iteration for image i
WorkerCrossPeak(i) ==
    /\ WorkerAt(i, "find_cross_peak")
    /\ self' = find_ncross_peak_step(self, i)
    /\ worker' = WorkerTo(i, "joined")
    /\ UNCHANGED norm_kwargs
    /\ OnlyLedgerAndWorkers

\* __init__ between the two loops, once every iteration of the first has ended
WorkersJoin ==
    /\ \A i \in DOMAIN worker : WorkerAt(i, "joined")
    /\ self' = FirstGuessAndTotals(self)
    /\ worker' = [i \in DOMAIN worker |-> [worker[i] EXCEPT !.at = "pop"]]
    /\ UNCHANGED norm_kwargs
    /\ OnlyLedgerAndWorkers

\* find_norm_factor, the iteration for image i: the extra offset from the keywords
WorkerPop(i) ==
    /\ WorkerAt(i, "pop")
    /\ LET p == PopExtra(norm_kwargs, self.list_muse_hdu[i])
       IN /\ norm_kwargs' = p.kwargs
          /\ worker' = [worker EXCEPT ![i].at = "_add_user_arc_offset",
                                      ![i].extra_arcsec = p.extra_arcsec]
    /\ UNCHANGED self
    /\ OnlyLedgerAndWorkers

WorkerAddOffset(i) ==
    /\ WorkerAt(i, "_add_user_arc_offset")
    /\ self' = _add_user_arc_offset(self, worker[i].extra_arcsec, i).self
    /\ worker' = WorkerTo(i, "shift")
    /\ UNCHANGED norm_kwargs
    /\ OnlyLedgerAndWorkers

WorkerShift(i) ==
    /\ WorkerAt(i, "shift")
    /\ self' = shift(self, i).self
    /\ worker' = WorkerTo(i, "get_image_norm_poly")
    /\ UNCHANGED norm_kwargs
    /\ OnlyLedgerAndWorkers

WorkerNorm(i) ==
    /\ WorkerAt(i, "get_image_norm_poly")
    /\ self' = StoreNorm(self, i)
    /\ worker' = WorkerTo(i, "done")
    /\ UNCHANGED norm_kwargs
    /\ OnlyLedgerAndWorkers

ParNext ==
    \/ \E i \in Range(Cardinality(Files)) : WorkerCrossPeak(i)
    \/ WorkersJoin
    \/ \E i \in Range(Cardinality(Files)) : WorkerPop(i)
    \/ \E i \in Range(Cardinality(Files)) : WorkerAddOffset(i)
    \/ \E i \in Range(Cardinality(Files)) : WorkerShift(i)
    \/ \E i \in Range(Cardinality(Files)) : WorkerNorm(i)

ParSpec == ParInit /\ [][ParNext]_vars

\* the ledger __init__ leaves when it runs the same work image after image
SequentialLedger(names, kw) ==
    find_norm_factor(FirstGuessAndTotals(find_ncross_peak(Allocate(names))), kw).self

------------------------------------------------------------------------------
(* __init__ (checkmode False) on a list of images that may hold one with a        *)
(* degenerate header                                                              *)

\* name_muse_images: each image once, in any order, the degenerate one among them
BatchNameLists ==
    {names \in UNION {[Range(n) -> Files \cup {Degenerate}] :
                        n \in 1 .. Cardinality(Files \cup {Degenerate})} :
        \A i, j \in DOMAIN names : i # j => names[i] # names[j]}

BatchInit ==
    \E names \in BatchNameLists, lib \in WCSLibraries :
        /\ self = NoObject
        /\ pc = [at |-> "open_hdu", nima |-> 0, checkmode |-> FALSE]
        /\ args = [names |-> names, wcs |-> lib]
        /\ ret = << >>
        /\ exc = "none"
        /\ disk = [f \in {} |-> EmptyTable]
        /\ stage = EmptyList
        /\ guess = "none"
        /\ saved_total = [f \in {} |-> EmptyList]
        /\ calls = 0
        /\ norm_kwargs = NoKwargs
        /\ worker = EmptyList

\* __init__ up to the branch on checkmode; _open_muse_nhdu builds wcs.WCS(hdu.header)
\* of every image
BatchOpen ==
    /\ pc.at = "open_hdu"
    /\ IF \E i \in DOMAIN args.names : WCSError(OpenHDU(args.names[i])) # "none"
       THEN /\ self' = NoObject
            /\ pc' = At("raised", 0)
            /\ exc' = "SingularMatrixError"
            /\ stage' = EmptyList
       ELSE /\ self' = Allocate(args.names)
            /\ pc' = At("find_ncross_peak", 0)
            /\ exc' = "none"
            /\ stage' = [i \in DOMAIN args.names |-> "Uninitialized"]
    /\ UNCHANGED <<disk, guess, saved_total, calls>>
    /\ UNCHANGED side

BatchNext == BatchOpen \/ Ctor

BatchSpec == BatchInit /\ [][BatchNext]_vars

------------------------------------------------------------------------------
(* The two conversions applied to a vector, and then the other one applied to     *)
(* what the first returned                                                        *)

\* the components of the vectors given to the conversions: -1 .. MaxOffset
MaxOffset == 2
Vectors == {<<x, y>> : x, y \in -1 .. MaxOffset}
Conversions == {"arcsec_to_pixel", "pixel_to_arcsec"}
\* what a call returns (value) or raises (exc)
Returned(v) == [exc |-> "none", value |-> v]
Raised(e) == [exc |-> e, value |-> <<0, 0>>]

ConvInit ==
    \E fn \in Conversions, f \in Files \cup {Degenerate}, xy \in Vectors,
       lib \in WCSLibraries :
        /\ args = [fn |-> fn, hdu |-> OpenHDU(f), xy |-> xy, wcs |-> lib]
        /\ ret = [first |-> Raised("pending"), second |-> Raised("pending")]
        /\ pc = [at |-> "call", nima |-> 0, checkmode |-> FALSE]
        /\ self = Allocate([i \in Range(1) |-> f])
        /\ exc = "none"
        /\ disk = [g \in {} |-> EmptyTable]
        /\ stage = EmptyList
        /\ guess = "none"
        /\ saved_total = [g \in {} |-> EmptyList]
        /\ calls = 0
        /\ norm_kwargs = NoKwargs
        /\ worker = EmptyList

\* the function due: the one named at the first call, the other one at the second
ConvDue(fn) ==
    \/ pc.at = "call" /\ args.fn = fn
    \/ pc.at = "returned" /\ args.fn # fn /\ ret.first.exc = "none"
\* its argument: the vector given, then the vector the first call returned
ConvArg == IF pc.at = "call" THEN args.xy ELSE ret.first.value
ConvReturn(r) ==
    /\ ret' = IF pc.at = "call" THEN [ret EXCEPT !.first = r] ELSE [ret EXCEPT !.second = r]
    /\ pc' = At(IF pc.at = "call" THEN "returned" ELSE "round_trip", 0)
    /\ UNCHANGED <<self, exc, disk, stage, guess, saved_total, calls, norm_kwargs, worker, args>>

ConvArcsecToPixel ==
    /\ ConvDue("arcsec_to_pixel")
    /\ ConvReturn(IF arcsec_to_pixel_exc(args.hdu) # "none"
                  THEN Raised(arcsec_to_pixel_exc(args.hdu))
                  ELSE Returned(arcsec_to_pixel(args.hdu, ConvArg)))

ConvPixelToArcsec ==
    /\ ConvDue("pixel_to_arcsec")
    /\ ConvReturn(IF pixel_to_arcsec_exc(args.hdu) # "none"
                  THEN Raised(pixel_to_arcsec_exc(args.hdu))
                  ELSE Returned(pixel_to_arcsec(args.hdu, ConvArg)))

ConvNext == ConvArcsecToPixel \/ ConvPixelToArcsec

ConvSpec == ConvInit /\ [][ConvNext]_vars

------------------------------------------------------------------------------
(* chunk_stats applied to a list of datasets.  A dataset is its shape; a statistic *)
(* of a slice is kept as the name of the statistic and the pixels of the slice     *)

\* the sides of the datasets: 0 .. MaxSide
MaxSide == 6
Shapes == {<<h, w>> : h, w \in 0 .. MaxSide}
ChunkSizes == {2, 3}
\* list_data: one or two datasets
DataLists == UNION {[Range(n) -> [shape : Shapes]] : n \in 1 .. 2}
\* d.size
Size(d) == d.shape[1] * d.shape[2]

\* the pixels of d[lo_x:hi_x, lo_y:hi_y]: a slice stops at the edge of the array
SlicePixels(d, lo_x, hi_x, lo_y, hi_y) ==
    {<<x, y>> : x \in {r \in lo_x .. (hi_x - 1) : r < d.shape[1]},
               y \in {r \in lo_y .. (hi_y - 1) : r < d.shape[2]}}
\* an entry of med_data or std_data: 0. as np.zeros left it, or the statistic of a slice
ZeroEntry == [stat |-> "0.", pixels |-> {}]
StatEntry(stat, pixels) == [stat |-> stat, pixels |-> pixels]

\* chunk_stats(list_data, chunk_size): med_data and std_data, or the exception of
\* np.zeros for a negative number of chunks
chunk_stats(list_data, chunk_size) ==
    LET ndatasets == Len0(list_data)
        nchunk_x == (list_data[0].shape[1] \div chunk_size) - 1
        nchunk_y == (list_data[0].shape[2] \div chunk_size) - 1
        nchunks == nchunk_x * nchunk_y
        \* the entry the loops leave at [k, n]: written when n = i * nchunk_y + j
        \* for an i in range(nchunk_x) and a j in range(nchunk_y)
        entry(stat, k, n) ==
            IF \E i \in Range(nchunk_x), j \in Range(nchunk_y) : n = i * nchunk_y + j
            THEN LET i == n \div nchunk_y
                     j == n % nchunk_y
                 IN StatEntry(stat,
                              SlicePixels(list_data[k],
                                          i * chunk_size, (i + 1) * chunk_size,
                                          j * chunk_size, (j + 1) * chunk_size))
            ELSE ZeroEntry
        zero_data == [k \in Range(ndatasets) |-> [n \in Range(nchunks) |-> ZeroEntry]]
    IN IF nchunks < 0
       THEN [exc |-> "ValueError", med_data |-> EmptyList, std_data |-> EmptyList]
       ELSE IF ~ \A k \in Range(ndatasets) : Size(list_data[k]) # 0
       THEN [exc |-> "none", med_data |-> zero_data, std_data |-> zero_data]
       ELSE [exc |-> "none",
             med_data |-> [k \in Range(ndatasets) |->
                             [n \in Range(nchunks) |-> entry("median", k, n)]],
             std_data |-> [k \in Range(ndatasets) |->
                             [n \in Range(nchunks) |-> entry("mad_std", k, n)]]]

ChunkInit ==
    \E list_data \in DataLists, chunk_size \in ChunkSizes :
        /\ args = [list_data |-> list_data, chunk_size |-> chunk_size]
        /\ ret = [exc |-> "pending", med_data |-> EmptyList, std_data |-> EmptyList]
        /\ pc = [at |-> "call", nima |-> 0, checkmode |-> FALSE]
        /\ self = NoObject
        /\ exc = "none"
        /\ disk = [g \in {} |-> EmptyTable]
        /\ stage = EmptyList
        /\ guess = "none"
        /\ saved_total = [g \in {} |-> EmptyList]
        /\ calls = 0
        /\ norm_kwargs = NoKwargs
        /\ worker = EmptyList

ChunkStats ==
    /\ pc.at = "call"
    /\ ret' = chunk_stats(args.list_data, args.chunk_size)
    /\ pc' = At("returned", 0)
    /\ UNCHANGED <<self, exc, disk, stage, guess, saved_total, calls, norm_kwargs, worker, args>>

ChunkNext == ChunkStats

ChunkSpec == ChunkInit /\ [][ChunkNext]_vars

------------------------------------------------------------------------------
(* get_image_norm_poly on the chunk statistics of two datasets: data1 the MUSE     *)
(* image, data2 the reference.  A ratio or a median of ratios is a fraction        *)
(* <<num, den>>; nan, the median of no value, is <<0, 0>>                           *)

\* the chunks chunk_stats returned for each dataset
ChunkCounts == 0 .. 3
\* the medians and the mad_std values of a chunk (mad_std is never negative)
MedValues == {-1, 0, 1, 2}
StdValues == {0, 1}
\* which of the two the installed scipy does when ODR is given fewer points than
\* the model has parameters: it returns an Output flagged as ill-posed, or raises
ODRLibraries == {"returns", "raises"}

NaN == <<0, 0>>
FracLess(p, q) == p[1] * q[2] < q[1] * p[2]
FracEq(p, q) == p[1] * q[2] = q[1] * p[2]
\* a[pos]: the entries of a where the mask holds, in their order
Mask(a, pos) ==
    LET kept == {n \in DOMAIN a : pos[n]}
    IN [k \in Range(Cardinality(kept)) |->
           a[CHOOSE n \in kept : Cardinality({m \in kept : m < n}) = k]]
\* np.median of an array of fractions with positive denominators
Median(a) ==
    LET m == Len0(a)
        \* the entry at place k of the sorted array
        sorted(k) == a[CHOOSE i \in DOMAIN a :
                          /\ Cardinality({j \in DOMAIN a : FracLess(a[j], a[i])}) <= k
                          /\ Cardinality({j \in DOMAIN a : ~FracLess(a[i], a[j])}) > k]
        lo == sorted((m - 1) \div 2)
        hi == sorted(m \div 2)
    IN IF m = 0 THEN NaN
       ELSE IF m % 2 = 1 THEN lo
       ELSE <<lo[1] * hi[2] + hi[1] * lo[2], 2 * lo[2] * hi[2]>>

\* regress_odr: the fit of the points given, started at beta0
regress_odr(x, y, sx, sy, beta0) == [x |-> x, y |-> y, sx |-> sx, sy |-> sy, beta0 |-> beta0]
NoFit == regress_odr(EmptyList, EmptyList, EmptyList, EmptyList, <<NaN, NaN>>)

\* get_image_norm_poly with the mask taken on the MUSE statistics only
get_image_norm_poly_muse_mask(med, std) ==
    LET pos == [n \in DOMAIN med[0] |-> med[0][n] > 0 /\ std[0][n] > 0]
        x == Mask(med[0], pos)
        y == Mask(med[1], pos)
        sx == Mask(std[0], pos)
        sy == Mask(std[1], pos)
        guess_slope == Median([n \in DOMAIN x |-> <<y[n], x[n]>>])
    IN [exc |-> "none", result |-> regress_odr(x, y, sx, sy, <<<<0, 1>>, guess_slope>>),
        x |-> x, y |-> y, sx |-> sx, sy |-> sy]

\* get_image_norm_poly from the line after chunk_stats: med[k], std[k] for k = 0, 1
get_image_norm_poly_of(med, std) ==
    LET pos == [n \in DOMAIN med[0] |->
                   med[0][n] > 0 /\ std[0][n] > 0 /\ std[1][n] > 0 /\ med[1][n] > 0]
        x == Mask(med[0], pos)
        y == Mask(med[1], pos)
        sx == Mask(std[0], pos)
        sy == Mask(std[1], pos)
        guess_slope == Median([n \in DOMAIN x |-> <<y[n], x[n]>>])
    IN IF Len0(x) < 2 /\ args.odr = "raises"
       THEN [exc |-> "OdrError", result |-> NoFit,
             x |-> EmptyList, y |-> EmptyList, sx |-> EmptyList, sy |-> EmptyList]
       ELSE [exc |-> "none", result |-> regress_odr(x, y, sx, sy, <<<<0, 1>>, guess_slope>>),
             x |-> x, y |-> y, sx |-> sx, sy |-> sy]

NormInit ==
    \E n \in ChunkCounts, lib \in ODRLibraries :
        \E med \in [Range(2) -> [Range(n) -> MedValues]],
           std \in [Range(2) -> [Range(n) -> StdValues]] :
            /\ args = [med |-> med, std |-> std, odr |-> lib]
            /\ ret = [exc |-> "pending", result |-> NoFit,
                      x |-> EmptyList, y |-> EmptyList, sx |-> EmptyList, sy |-> EmptyList]
            /\ pc = [at |-> "call", nima |-> 0, checkmode |-> FALSE]
            /\ self = Allocate([i \in Range(1) |-> "P01"])
            /\ exc = "none"
            /\ disk = [g \in {} |-> EmptyTable]
            /\ stage = EmptyList
            /\ guess = "none"
            /\ saved_total = [g \in {} |-> EmptyList]
            /\ calls = 0
            /\ norm_kwargs = NoKwargs
            /\ worker = EmptyList

GetImageNormPoly ==
    /\ pc.at = "call"
    /\ ret' = get_image_norm_poly_of(args.med, args.std)
    /\ pc' = At("returned", 0)
    /\ UNCHANGED <<self, exc, disk, stage, guess, saved_total, calls, norm_kwargs, worker, args>>

\* find_norm_factor after get_image_norm_poly has returned: the fit is stored; an
\* exception of get_image_norm_poly leaves find_norm_factor before that
NormStore ==
    /\ pc.at = "returned"
    /\ ret.exc = "none"
    /\ self' = StoreNorm(self, 0)
    /\ pc' = At("stored", 0)
    /\ UNCHANGED <<exc, disk, stage, guess, saved_total, calls, norm_kwargs, worker, args, ret>>

NormNext == GetImageNormPoly \/ NormStore

NormSpec == NormInit /\ [][NormNext]_vars

------------------------------------------------------------------------------
(* find_cross_peak from the cross-correlation on: ima_ref and ima_muse are the     *)
(* two prepared images, arrays data[y][x] over 0 .. H-1 and 0 .. W-1 of integer    *)
(* pixel values, and the correlation is computed exactly                           *)

Height(a) == Len0(a)
Width(a) == IF Len0(a) = 0 THEN 0 ELSE Len0(a[0])
\* the arrays of a shape with pixel values 0 and 1
BinaryImages(shape) == [Range(shape[1]) -> [Range(shape[2]) -> {0, 1}]]
\* small images of any content, for the surface and its maximum
SmallShapes == {<<2, 2>>, <<2, 3>>}
SmallImages == UNION {BinaryImages(shape) : shape \in SmallShapes}
\* images of one or two bright pixels on a dark field, and their translations
FieldShape == <<4, 4>>
BrightPixels(a) == {p \in Range(Height(a)) \X Range(Width(a)) : a[p[1]][p[2]] # 0}
FieldImages == {a \in BinaryImages(FieldShape) : Cardinality(BrightPixels(a)) \in {1, 2}}
\* the image translated by (dx, dy): the pixel at (y, x) is the one that was at
\* (y - dy, x - dx); what comes from outside the frame is dark
Translate(a, dx, dy) ==
    [y \in Range(Height(a)) |->
        [x \in Range(Width(a)) |->
            IF (y - dy) \in Range(Height(a)) /\ (x - dx) \in Range(Width(a))
            THEN a[y - dy][x - dx] ELSE 0]]
Translations == {<<dx, dy>> : dx, dy \in -1 .. 1}
\* the translation keeps every bright pixel inside the frame
KeepsInside(a, dx, dy) ==
    \A p \in BrightPixels(a) :
        (p[1] + dy) \in Range(Height(a)) /\ (p[2] + dx) \in Range(Width(a))

\* the sum of f[n] over n in 0 .. Len0(f) - 1
Sum(f) ==
    LET RECURSIVE upto(_)
        upto(n) == IF n = 0 THEN 0 ELSE f[n - 1] + upto(n - 1)
    IN upto(Len0(f))
\* scipy.signal.correlate(in1, in2, mode='full'):
\* z[k1, k2] = sum over l of in1[l1, l2] * in2[l1 - k1 + H2 - 1, l2 - k2 + W2 - 1]
correlate(in1, in2) ==
    LET h1 == Height(in1)
        w1 == Width(in1)
        h2 == Height(in2)
        w2 == Width(in2)
        term(k1, k2, n) ==
            LET l1 == n \div w1
                l2 == n % w1
                m1 == l1 - k1 + h2 - 1
                m2 == l2 - k2 + w2 - 1
            IN IF m1 \in Range(h2) /\ m2 \in Range(w2) THEN in1[l1][l2] * in2[m1][m2] ELSE 0
    IN [k1 \in Range(h1 + h2 - 1) |->
           [k2 \in Range(w1 + w2 - 1) |->
               Sum([n \in Range(h1 * w1) |-> term(k1, k2, n)])]]

\* the first of the largest entries of the array read column after column
argmax_column_major(a) ==
    LET h == Height(a)
        flat == [n \in Range(h * Width(a)) |-> a[n % h][n \div h]]
        first == CHOOSE n \in DOMAIN flat :
                     /\ \A m \in DOMAIN flat : flat[m] <= flat[n]
                     /\ \A m \in DOMAIN flat : m < n => flat[m] < flat[n]
    IN <<first % h, first \div h>>

\* np.unravel_index(np.argmax(a), a.shape): the first of the largest entries of
\* the array read row after row, as <<row, column>>
argmax(a) ==
    LET w == Width(a)
        flat == [n \in Range(Height(a) * w) |-> a[n \div w][n % w]]
        first == CHOOSE n \in DOMAIN flat :
                     /\ \A m \in DOMAIN flat : flat[m] <= flat[n]
                     /\ \A m \in DOMAIN flat : m < n => flat[m] < flat[n]
    IN <<first \div w, first % w>>

\* the window around the maximum, its indices taken modulo the shape of the surface
Window(ccor, maxy, maxx, window) ==
    [a \in Range(2 * window + 1) |->
        [b \in Range(2 * window + 1) |->
            ccor[(maxy - window + a) % Height(ccor)][(maxx - window + b) % Width(ccor)]]]
\* The fit of the 2D Gaussian started on the cell (smaxy, smaxx) of the window.  A
\* window that is its own mirror image through that cell leaves the least-squares
\* fit no direction to move the mean to: the fitted mean is the start.  For other
\* windows the model does not say where the mean ends.
MirrorThrough(subim, smaxy, smaxx) ==
    \A a \in DOMAIN subim : \A b \in DOMAIN subim[a] :
        /\ (2 * smaxy - a) \in DOMAIN subim
        /\ (2 * smaxx - b) \in DOMAIN subim[a]
        /\ subim[2 * smaxy - a][2 * smaxx - b] = subim[a][b]

find_cross_peak_of(ima_ref, ima_muse, window) ==
    LET ccor == correlate(ima_ref, ima_muse)
        max == argmax(ccor)
        maxy == max[1]
        maxx == max[2]
        subim == Window(ccor, maxy, maxx, window)
        smax == argmax(subim)
        x_mean == (maxx - window) + smax[2]
        y_mean == (maxy - window) + smax[1]
    IN [ccor |-> ccor, maxy |-> maxy, maxx |-> maxx,
        fitted |-> MirrorThrough(subim, smax[1], smax[2]),
        xpix_cross |-> x_mean - (Width(ccor) \div 2),
        ypix_cross |-> y_mean - (Height(ccor) \div 2)]

PeakInputs ==
    {[ima_ref |-> r, ima_muse |-> m, subim_window |-> 1] : r, m \in SmallImages}
    \cup {[ima_ref |-> r, ima_muse |-> Translate(r, d[1], d[2]), subim_window |-> 2] :
              r \in FieldImages, d \in Translations}

PeakInit ==
    /\ args \in PeakInputs
    /\ ret = [ccor |-> EmptyList, maxy |-> 0, maxx |-> 0, fitted |-> FALSE,
              xpix_cross |-> 0, ypix_cross |-> 0]
    /\ pc = [at |-> "call", nima |-> 0, checkmode |-> FALSE]
    /\ self = NoObject
    /\ exc = "none"
    /\ disk = [g \in {} |-> EmptyTable]
    /\ stage = EmptyList
    /\ guess = "none"
    /\ saved_total = [g \in {} |-> EmptyList]
    /\ calls = 0
    /\ norm_kwargs = NoKwargs
    /\ worker = EmptyList

FindCrossPeak ==
    /\ pc.at = "call"
    /\ ret' = find_cross_peak_of(args.ima_ref, args.ima_muse, args.subim_window)
    /\ pc' = At("returned", 0)
    /\ UNCHANGED <<self, exc, disk, stage, guess, saved_total, calls, norm_kwargs, worker, args>>

PeakNext == FindCrossPeak

PeakSpec == PeakInit /\ [][PeakNext]_vars

------------------------------------------------------------------------------
(* _prepare_image, _filtermed_image and _get_flux_range on one image.  An image   *)
(* is its shape <<rows, columns>> and its pixel values; a pixel is nan or a       *)
(* finite number.  The arithmetic of arctan and of the median filter changes      *)
(* pixel values and not which pixels are kept, so the result of the two filters   *)
(* is the region they kept                                                         *)

PixelValues == {[nan |-> TRUE, v |-> 0]} \cup {[nan |-> FALSE, v |-> n] : n \in {-1, 0, 1, 2, 5}}
FrameShapes == {<<h, w>> : h, w \in 2 .. 4}
\* self.border
Borders == 0 .. 2
\* the percentiles a caller passes as low and high
Percentiles == {<<10, 90>>, <<50, 90>>}
\* what the library does with an array of no element
EmptyArrayLibraries == {"returns", "raises"}
\* the image of a shape that repeats three pixel values in row-major order
Frame(shape, vals) ==
    [shape |-> shape,
     pix |-> [c \in Range(shape[1]) \X Range(shape[2]) |->
                 vals[((c[1] * shape[2] + c[2]) % 3) + 1]]]
Frames == {Frame(shape, vals) : shape \in FrameShapes,
                                vals \in PixelValues \X PixelValues \X PixelValues}

\* np.nan_to_num
nan_to_num(p) == IF p.nan THEN 0 ELSE p.v
\* the indices range(n)[border:-border] keeps: -border is 0 when border is 0,
\* and a stop before the start keeps nothing
BorderSlice(n, border) ==
    LET stop == IF border = 0 THEN 0 ELSE IF n - border < 0 THEN 0 ELSE n - border
    IN {i \in Range(n) : border <= i /\ i < stop}
\* data[self.border:-self.border, self.border:-self.border]: the shape of the slice
\* and, for each of its pixels, the pixel of data it is
omit_border(data, border) ==
    LET rows == BorderSlice(data.shape[1], border)
        cols == BorderSlice(data.shape[2], border)
    IN [shape |-> <<Cardinality(rows), Cardinality(cols)>>,
        from |-> [c \in Range(Cardinality(rows)) \X Range(Cardinality(cols)) |->
                     <<c[1] + border, c[2] + border>>]]
\* nd.filters.median_filter(data, size): an array of the shape of data
median_filter(region, library) ==
    IF region.shape[1] * region.shape[2] = 0 /\ library = "raises"
    THEN [exc |-> "RuntimeError", region |-> region]
    ELSE [exc |-> "none", region |-> region]

NoRange == [lperc |-> NaN, hperc |-> NaN]
_prepare_image(data, border, library) ==
    LET medim1 == median_filter(omit_border(data, border), library)
    IN [op |-> "_prepare_image", exc |-> medim1.exc, region |-> medim1.region,
        range |-> NoRange]
_filtermed_image(data, border, library) ==
    LET meddata == median_filter(omit_border(data, border), library)
    IN [op |-> "_filtermed_image", exc |-> meddata.exc, region |-> meddata.region,
        range |-> NoRange]

\* np.percentile(a, q) with linear interpolation, as the fraction <<num, 100>>;
\* a maps the places of the selected pixels to their values
percentile(a, q) ==
    LET n == Cardinality(DOMAIN a)
        sorted(k) == a[CHOOSE i \in DOMAIN a :
                          /\ Cardinality({j \in DOMAIN a : a[j] < a[i]}) <= k
                          /\ Cardinality({j \in DOMAIN a : a[j] <= a[i]}) > k]
        lo == ((n - 1) * q) \div 100
        part == ((n - 1) * q) % 100
    IN IF n = 0 THEN NaN
       ELSE IF part = 0 THEN <<100 * sorted(lo), 100>>
       ELSE <<100 * sorted(lo) + part * (sorted(lo + 1) - sorted(lo)), 100>>
_get_flux_range(data, border, low, high, library) ==
    LET region == omit_border(data, border)
        cleaned == [c \in DOMAIN region.from |-> nan_to_num(data.pix[region.from[c]])]
        positive == [c \in {d \in DOMAIN cleaned : cleaned[d] > 0} |-> cleaned[c]]
    IN IF DOMAIN positive = {} /\ library = "raises"
       THEN [op |-> "_get_flux_range", exc |-> "IndexError", region |-> region,
             range |-> NoRange]
       ELSE [op |-> "_get_flux_range", exc |-> "none", region |-> region,
             range |-> [lperc |-> percentile(positive, 10),
                        hperc |-> percentile(positive, 90)]]

FrameInit ==
    /\ args \in [data : Frames, border : Borders, percentiles : Percentiles,
                 scipy : EmptyArrayLibraries, numpy : EmptyArrayLibraries]
    /\ ret = [op |-> "none", exc |-> "pending",
              region |-> [shape |-> <<0, 0>>, from |-> EmptyList], range |-> NoRange]
    /\ pc = [at |-> "call", nima |-> 0, checkmode |-> FALSE]
    /\ self = NoObject
    /\ exc = "none"
    /\ disk = [g \in {} |-> EmptyTable]
    /\ stage = EmptyList
    /\ guess = "none"
    /\ saved_total = [g \in {} |-> EmptyList]
    /\ calls = 0
    /\ norm_kwargs = NoKwargs
    /\ worker = EmptyList

PrepareImage ==
    /\ pc.at = "call"
    /\ ret' = _prepare_image(args.data, args.border, args.scipy)
    /\ pc' = At("returned", 0)
    /\ UNCHANGED <<self, exc, disk, stage, guess, saved_total, calls, norm_kwargs, worker, args>>

FiltermedImage ==
    /\ pc.at = "call"
    /\ ret' = _filtermed_image(args.data, args.border, args.scipy)
    /\ pc' = At("returned", 0)
    /\ UNCHANGED <<self, exc, disk, stage, guess, saved_total, calls, norm_kwargs, worker, args>>

GetFluxRange ==
    /\ pc.at = "call"
    /\ ret' = _get_flux_range(args.data, args.border, args.percentiles[1],
                              args.percentiles[2], args.numpy)
    /\ pc' = At("returned", 0)
    /\ UNCHANGED <<self, exc, disk, stage, guess, saved_total, calls, norm_kwargs, worker, args>>

FrameNext == PrepareImage \/ FiltermedImage \/ GetFluxRange

FrameSpec == FrameInit /\ [][FrameNext]_vars

------------------------------------------------------------------------------
(* find_norm_factor called on a ledger that __init__ has built                     *)

\* the keywords find_norm_factor is called with: none, an offset in arcseconds or
\* an offset in pixels
FactorKwargs ==
    {NoKwargs} \cup {[extra_arcsec |-> e] : e \in {<<1, -2>>, <<2, 0>>, <<0, 3>>, <<-1, -1>>}}
               \cup {[extra_pixel |-> p] : p \in {<<2, 1>>, <<1, 1>>, <<0, -1>>}}

FactorInit ==
    \E names \in NameLists :
        /\ self = SequentialLedger(names, NoKwargs)
        /\ args = [names |-> names, kwargs |-> NoKwargs]
        /\ ret = << >>
        /\ pc = [at |-> "ready", nima |-> 0, checkmode |-> FALSE]
        /\ exc = "none"
        /\ disk = [f \in {} |-> EmptyTable]
        /\ stage = EmptyList
        /\ guess = "crosscorr"
        /\ saved_total = [f \in {} |-> EmptyList]
        /\ calls = 0
        /\ norm_kwargs = NoKwargs
        /\ worker = EmptyList

\* find_norm_factor with the keywords kw; norm_kwargs keeps those of the last call
CallFindNormFactor(kw) ==
    /\ Callable
    /\ calls' = calls + 1
    /\ LET r == find_norm_factor(self, kw)
       IN /\ self' = r.self
          /\ exc' = r.exc
    /\ norm_kwargs' = kw
    /\ UNCHANGED <<pc, disk, stage, guess, saved_total, worker, args, ret>>

FactorNext == \E kw \in FactorKwargs : CallFindNormFactor(kw)

FactorSpec == FactorInit /\ [][FactorNext]_vars

------------------------------------------------------------------------------
(* The claims *)

Ready == pc.at = "ready"
Images == Range(self.nimages)
Zero == <<0, 0>>

\* C1: once the initial guess has been set (the object is constructed, in normal or in
\* check mode, and any calls have been made), for every exposure the total offset is
\* the initial plus the extra offset, in pixels and in arcseconds, and the total in
\* arcseconds is the total in pixels converted with pixel_to_arcsec.
C1_TotalIsInitPlusExtra ==
    Ready =>
        \A i \in Images :
            /\ i \in DOMAIN self.init_off_arcsec
            /\ self.total_off_pixel[i] = VAdd(self.init_off_pixel[i], self.extra_off_pixel[i])
            /\ self.total_off_arcsec[i] = VAdd(self.init_off_arcsec[i], self.extra_off_arcsec[i])
            /\ self.total_off_arcsec[i] =
                   pixel_to_arcsec(self.list_muse_hdu[i], self.total_off_pixel[i])

\* C2: in every state, each of the four offsets of an exposure has its arcsecond value
\* equal to its pixel value converted with that exposure's own scale matrix.
C2_OwnMatrix ==
    \A i \in Images :
        /\ self.cross_off_arcsec[i] =
               pixel_to_arcsec(self.list_muse_hdu[i], self.cross_off_pixel[i])
        /\ i \in DOMAIN self.init_off_arcsec =>
               self.init_off_arcsec[i] =
                   pixel_to_arcsec(self.list_muse_hdu[i], self.init_off_pixel[i])
        /\ self.extra_off_arcsec[i] =
               pixel_to_arcsec(self.list_muse_hdu[i], self.extra_off_pixel[i])
        /\ self.total_off_arcsec[i] =
               pixel_to_arcsec(self.list_muse_hdu[i], self.total_off_pixel[i])

\* C3: applying an extra offset is idempotent.  From every state of a constructed
\* object, for every extra offset e and image number nima, shift_arcsecond(e, nima)
\* called twice leaves the object (the extra and total offsets of the exposure, in both
\* units, and everything else) and the outcome as the first call left them; the same
\* for run(nima, extra_arcsec=e).
C3_ShiftTwiceIsShiftOnce ==
    Ready =>
        \A e \in ExtraArcsecs, nima \in Nimas :
            /\ LET r1 == shift_arcsecond(self, e, nima)
                   r2 == shift_arcsecond(r1.self, e, nima)
               IN r2 = r1
            /\ LET r1 == run(self, nima, [extra_arcsec |-> e])
                   r2 == run(r1.self, nima, [extra_arcsec |-> e])
               IN r2 = r1

\* a state left by shift_arcsecond with a non-zero extra offset on a non-zero initial
\* guess, on which the same call again changes nothing
C3_Witness ==
    /\ Ready
    /\ exc = "none"
    /\ \E i \in Images :
          /\ stage[i] = "ShiftApplied"
          /\ self.extra_off_arcsec[i] = <<1, -2>>
          /\ i \in DOMAIN self.init_off_arcsec
          /\ self.init_off_arcsec[i] # Zero
          /\ self.total_off_arcsec[i] = VAdd(self.init_off_arcsec[i], <<1, -2>>)
          /\ shift_arcsecond(self, <<1, -2>>, i) = Ok(self)

InCtor == ~Idle
ShiftedHDU(i) ==
    [self.list_muse_hdu[i] EXCEPT !.CRPIX1 = @ - self.total_off_pixel[i][1],
                                  !.CRPIX2 = @ - self.total_off_pixel[i][2]]
\* what the ledger holds for exposure i at each state of the state machine, in __init__
CtorRecords(i) ==
    LET no == StageNo(stage[i])
        hdu == self.list_muse_hdu[i]
    IN /\ self.cross_off_pixel[i] = (IF no >= 2 THEN find_cross_peak(hdu) ELSE Zero)
       /\ self.cross_off_arcsec[i] =
              (IF no >= 2 THEN pixel_to_arcsec(hdu, find_cross_peak(hdu)) ELSE Zero)
       /\ (no >= 3) = (guess = "crosscorr")
       /\ no >= 3 => /\ self.init_off_pixel[i] = self.cross_off_pixel[i]
                     /\ self.total_off_pixel[i] = self.cross_off_pixel[i]
                     /\ \A j \in Images : StageNo(stage[j]) >= 3
       /\ self.list_offmuse_hdu[i] = (IF no >= 4 THEN ShiftedHDU(i) ELSE NoneHDU)
       /\ self.ima_normfactor[i] =
              (IF no = 5 THEN get_image_norm_poly(ShiftedHDU(i))[2] ELSE Float0)
CtorOrder ==
    InCtor => \A i \in DOMAIN stage :
                 \/ stage'[i] = stage[i]
                 \/ StageNo(stage'[i]) = StageNo(stage[i]) + 1
AllNormalized == Ready /\ \A i \in Images : stage[i] = "Normalized"

C5_CrossCorrGuess ==
    (Ready /\ guess = "crosscorr") =>
        \A i \in Images :
            /\ self.init_off_pixel[i] = self.cross_off_pixel[i]
            /\ self.init_off_arcsec[i] = self.cross_off_arcsec[i]
            /\ self.extra_off_arcsec[i] = Zero =>
                  /\ self.total_off_pixel[i] = self.cross_off_pixel[i]
                  /\ self.total_off_arcsec[i] = self.cross_off_arcsec[i]

\* C6: loading the initial guess from a table that is missing, or with no table name
\* given, does not fail, and leaves the initial offset of every exposure zero in both
\* units.
C6_MissingTableZeroGuess ==
    /\ exc # "TypeError"
    /\ pc.at # "raised"
    /\ (Ready /\ guess = "zero") =>
          \A i \in Images : /\ self.init_off_pixel[i] = Zero
                            /\ self.init_off_arcsec[i] = Zero

\* C7: after the initial guess has been loaded from a table, every exposure holds the
\* offset of the table row that has the exposure's own DATE_OBS, whatever the order
\* and the number of the rows.
C7_RowsMatchedByDateObs ==
    (Ready /\ guess = "table" /\ "DATE_OBS" \in DOMAIN self.offset_table) =>
        \A i \in Images, k \in Range(NRows(self.offset_table)) :
            self.offset_table["DATE_OBS"][k] = DateObs(self.list_muse_images[i]) =>
                /\ i \in DOMAIN self.init_off_arcsec
                /\ self.init_off_arcsec[i] = TableOffsetsArcsec(self.offset_table)[k]
                /\ self.init_off_pixel[i] =
                       arcsec_to_pixel(self.list_muse_hdu[i], self.init_off_arcsec[i])

\* C8: a save that changes a table on disk which has the columns RA_OFFSET and
\* DEC_OFFSET writes a table with the columns RA_OFFSET_ORIG and DEC_OFFSET_ORIG:
\* the ones the table had, or else its former RA_OFFSET and DEC_OFFSET.
C8_SaveKeepsOriginalOffsets ==
    [][\A name \in DOMAIN disk :
          ("RA_OFFSET" \in DOMAIN disk[name] /\ disk'[name] # disk[name]) =>
              /\ "RA_OFFSET_ORIG" \in DOMAIN disk'[name]
              /\ "DEC_OFFSET_ORIG" \in DOMAIN disk'[name]
              /\ disk'[name]["RA_OFFSET_ORIG"] =
                     (IF "RA_OFFSET_ORIG" \in DOMAIN disk[name]
                      THEN disk[name]["RA_OFFSET_ORIG"] ELSE disk[name]["RA_OFFSET"])
              /\ disk'[name]["DEC_OFFSET_ORIG"] =
                     (IF "DEC_OFFSET_ORIG" \in DOMAIN disk[name]
                      THEN disk[name]["DEC_OFFSET_ORIG"] ELSE disk[name]["DEC_OFFSET"])]_vars

\* the initial guess is the one loaded from the table now on disk under the name it
\* was read from, and the table was saved by a ledger over the same exposures (the
\* same images in the same order)
GuessFromSavedTable ==
    /\ Ready
    /\ guess = "table"
    /\ self.name_input_table \in DOMAIN disk
    /\ self.offset_table = disk[self.name_input_table]
    /\ self.offset_table["DATE_OBS"] =
           [i \in Images |-> DateObs(self.list_muse_images[i])]

\* C9: round trip of the offset table.  When the initial guess of a ledger has been
\* loaded from a table saved by a ledger over the same exposures, every exposure
\* shifted since with no extra offset has the total offset in arcseconds that the
\* saving ledger had for it, and shifting any exposure with no extra offset succeeds
\* and gives it that total.
C9_TableRoundTrip ==
    GuessFromSavedTable =>
        \A i \in Images :
            /\ (stage[i] \in {"ShiftApplied", "Normalized"}
                    /\ self.extra_off_arcsec[i] = Zero) =>
                   self.total_off_arcsec[i] = saved_total[self.name_input_table][i]
            /\ LET r == shift_arcsecond(self, Zero, i)
               IN /\ r.exc = "none"
                  /\ r.self.total_off_arcsec[i] = saved_total[self.name_input_table][i]

\* a ledger made in check mode from a saved table, with an exposure shifted since to
\* the non-zero total of the ledger that saved the table
C9_Witness ==
    /\ GuessFromSavedTable
    /\ pc.checkmode
    /\ \E i \in Images :
          /\ stage[i] = "ShiftApplied"
          /\ self.extra_off_arcsec[i] = Zero
          /\ self.total_off_arcsec[i] # Zero
          /\ self.total_off_arcsec[i] = saved_total[self.name_input_table][i]

\* C10: a ledger made in check mode from a saved table with one row per exposure holds
\* the table's cross-correlation offsets, flux scale factors and timestamps: saving it
\* under another name succeeds and writes the columns RA_CROSS_OFFSET,
\* DEC_CROSS_OFFSET, FLUX_SCALE and DATE_OBS of the table it was loaded from.
C10_CheckModeRestoresRecords ==
    (GuessFromSavedTable /\ pc.checkmode) =>
        LET r == save_fits_offset_table(self, OffsetTableName, TRUE, "_check")
            out == ReplaceFits(OffsetTableName, "_check")
        IN /\ r.exc = "none"
           /\ out \in DOMAIN r.disk
           /\ \A c \in {"RA_CROSS_OFFSET", "DEC_CROSS_OFFSET", "FLUX_SCALE", "DATE_OBS"} :
                 r.disk[out][c] = self.offset_table[c]

\* the input image of exposure i as it was opened, and its reference pixel moved back
\* by the total offset the ledger holds for i
OriginalHDU(i) == OpenHDU(self.list_muse_images[i])
OriginalShifted(s, i) ==
    [OriginalHDU(i) EXCEPT !.CRPIX1 = @ - s.total_off_pixel[i][1],
                           !.CRPIX2 = @ - s.total_off_pixel[i][2]]

\* C11: shift(i) makes a new image whose CRPIX is the CRPIX of the input image of i
\* minus total_off_pixel[i], and leaves the input image as it was opened.  In every
\* state the input images are unchanged and a shifted image, when there is one, has
\* the input image's CRPIX minus the current total offset in pixels; a shift from any
\* state gives that image again, so that repeated shifts do not add up.
C11_ShiftFromOriginal ==
    \A i \in Images :
        /\ self.list_muse_hdu[i] = OriginalHDU(i)
        /\ self.list_offmuse_hdu[i] \in {NoneHDU, OriginalShifted(self, i)}
        /\ Ready =>
              LET r == shift(self, i)
              IN /\ r.exc = "none"
                 /\ r.self.list_muse_hdu = self.list_muse_hdu
                 /\ r.self.list_offmuse_hdu[i] = OriginalShifted(self, i)
                 /\ r.self.total_off_pixel = self.total_off_pixel
                 /\ shift(r.self, i) = r

\* an exposure shifted in __init__ and shifted again since with an extra offset
C11_Witness ==
    /\ Ready
    /\ ~pc.checkmode
    /\ \E i \in Images :
          /\ stage[i] = "ShiftApplied"
          /\ self.extra_off_pixel[i] # Zero
          /\ self.total_off_pixel[i] # Zero
          /\ self.total_off_pixel[i] # find_cross_peak(self.list_muse_hdu[i])
          /\ self.list_offmuse_hdu[i] = OriginalShifted(self, i)

\* C12: in every state the flux scale factor stored for an exposure is the slope b1
\* of the fit stored for it: ima_normfactor[i] = ima_polynorm[i][1] (the second of
\* the two parameters), whichever operation stored the fit last.
C12_ScaleIsStoredSlope ==
    \A i \in Images : self.ima_normfactor[i] = self.ima_polynorm[i][2]

WorkersDone == pc.at = "workers" /\ \A i \in DOMAIN worker : WorkerAt(i, "done")

CtorEnded == pc.at \in {"ready", "raised"}
\* the record of image i is there: its shifted image and its normalisation
Recorded(i) ==
    /\ i \in DOMAIN stage
    /\ stage[i] = "Normalized"
    /\ self.list_offmuse_hdu[i] # NoneHDU
    /\ self.ima_normfactor[i] # Float0

\* C14: a failure of the computation for one exposure (here a singular scale matrix)
\* aborts the record of that exposure only: when __init__ has ended, every other
\* exposure of the list has been shifted and normalised and its record is there.
C14_FailureAbortsOnlyItsExposure ==
    CtorEnded =>
        \A i \in DOMAIN args.names :
            ~Singular(OpenHDU(args.names[i])) => Recorded(i)

\* the call raised an index error and left the object as it was
FailsUnchanged(r) == r.exc = "IndexError" /\ r.self = self

\* C15: every operation on one exposure that is given an image number outside
\* 0 .. nimages-1, negative numbers included, fails with an index error and
\* leaves every record and every shifted image unchanged.
C15_OutOfRangeFailsUnchanged ==
    Ready =>
        \A nima \in Nimas \ Images :
            /\ \A kwargs \in RunKwargs : FailsUnchanged(run(self, nima, kwargs))
            /\ \A e \in ExtraArcsecs :
                  /\ FailsUnchanged(shift_arcsecond(self, e, nima))
                  /\ FailsUnchanged(_add_user_arc_offset(self, e, nima))
            /\ FailsUnchanged(shift(self, nima))

\* the two ways to give run the same extra offset for image i
RunPixel(i, p) == run(self, i, [extra_pixel |-> p])
RunArcsec(i, p) == run(self, i, [extra_arcsec |-> pixel_to_arcsec(self.list_muse_hdu[i], p)])
\* run(nima=i, extra_pixel=p) and run(nima=i, extra_arcsec=M_i p) leave the same object
SameLedger(i, p) == RunPixel(i, p) = RunArcsec(i, p)
\* the extra offset of image i after run(nima=i, extra_pixel=p), in both units
ExtraStored(i, p) ==
    LET s == RunPixel(i, p).self
    IN /\ s.extra_off_pixel[i] = p
       /\ s.extra_off_arcsec[i] = pixel_to_arcsec(s.list_muse_hdu[i], p)
\* total = init + extra for image i after run(nima=i, extra_pixel=p), in both units
TotalStored(i, p) ==
    LET s == RunPixel(i, p).self
    IN /\ s.total_off_arcsec[i] = VAdd(s.init_off_arcsec[i], s.extra_off_arcsec[i])
       /\ s.total_off_pixel[i] = VAdd(s.init_off_pixel[i], s.extra_off_pixel[i])

\* C16: run(nima=i, extra_pixel=p) leaves the ledger in the state that
\* run(nima=i, extra_arcsec=pixel_to_arcsec_i(p)) leaves, with extra_off_pixel[i] = p,
\* extra_off_arcsec[i] = M_i p, and total = init + extra in pixels and in arcseconds.
C16_ExtraPixelAsExtraArcsec ==
    Ready =>
        \A i \in Images, p \in ExtraPixels :
            /\ SameLedger(i, p)
            /\ ExtraStored(i, p)
            /\ TotalStored(i, p)

\* C17: for an image whose scale matrix can be inverted the two conversions undo
\* each other: arcsec_to_pixel(pixel_to_arcsec(v)) = v and
\* pixel_to_arcsec(arcsec_to_pixel(v)) = v.
C17_ConversionRoundTrip ==
    pc.at = "round_trip" /\ ~Singular(args.hdu) =>
        /\ ret.first.exc = "none"
        /\ ret.second.exc = "none"
        /\ ret.second.value = args.xy

C17_Witness ==
    /\ pc.at = "round_trip"
    /\ ~Singular(args.hdu)
    /\ args.fn = "pixel_to_arcsec"
    /\ args.xy = <<2, -1>>
    /\ ret.first = Returned(pixel_to_arcsec(args.hdu, args.xy))
    /\ ret.first.value \notin {args.xy, <<0, 0>>}
    /\ ret.second = Returned(args.xy)

\* C18: on an image whose scale matrix cannot be inverted arcsec_to_pixel fails with
\* a singular-matrix error while pixel_to_arcsec still returns M v; neither call
\* changes the image or the ledger.
C18_SingularFailsOnlyInverse ==
    pc.at = "returned" /\ Singular(args.hdu) =>
        /\ args.fn = "arcsec_to_pixel" =>
               ret.first.exc \in {"LinAlgError", "SingularMatrixError"}
        /\ args.fn = "pixel_to_arcsec" =>
               ret.first = Returned(pixel_to_arcsec(args.hdu, args.xy))
        /\ self = Allocate(self.list_muse_images)
        /\ self.list_muse_hdu[0] = args.hdu

\* the datasets given to chunk_stats all have the shape of the first
SameShapes == \A k \in DOMAIN args.list_data : args.list_data[k].shape = args.list_data[0].shape
\* the number of complete tiles along each axis of the first dataset
TilesX == args.list_data[0].shape[1] \div args.chunk_size
TilesY == args.list_data[0].shape[2] \div args.chunk_size
\* the pixels of the complete tile (ti, tj)
Tile(ti, tj) ==
    {<<x, y>> : x \in (ti * args.chunk_size) .. ((ti + 1) * args.chunk_size - 1),
               y \in (tj * args.chunk_size) .. ((tj + 1) * args.chunk_size - 1)}
\* the entries of dataset k that are the statistic of the given pixels
EntriesOver(data, k, pixels) == {n \in DOMAIN data[k] : data[k][n].pixels = pixels}

\* C19: chunk_stats on datasets of shape H x W with chunk size c returns exactly
\* floor(H/c) * floor(W/c) entries per dataset; every complete tile is the slice of
\* exactly one entry, so that only a partial trailing row or column is dropped.
C19_EveryCompleteTileOnce ==
    pc.at = "returned" /\ SameShapes /\ Size(args.list_data[0]) # 0 =>
        /\ ret.exc = "none"
        /\ \A k \in DOMAIN args.list_data :
              /\ Len0(ret.med_data[k]) = TilesX * TilesY
              /\ Len0(ret.std_data[k]) = TilesX * TilesY
              /\ \A ti \in Range(TilesX), tj \in Range(TilesY) :
                    /\ Cardinality(EntriesOver(ret.med_data, k, Tile(ti, tj))) = 1
                    /\ Cardinality(EntriesOver(ret.std_data, k, Tile(ti, tj))) = 1

\* entry n is the statistic of the same pixels in every dataset
SameRegions(data) ==
    \A k \in DOMAIN data : \A n \in DOMAIN data[k] : data[k][n].pixels = data[0][n].pixels

\* C20: chunk_stats fails with a shape-mismatch error when the datasets do not all
\* have the same shape and computes the statistics only when they do; entry n is
\* then taken over the same region in every dataset.
C20_ShapeMismatchRejected ==
    pc.at = "returned" =>
        /\ ~SameShapes => ret.exc = "ShapeMismatch"
        /\ SameShapes /\ ret.exc = "none" =>
               SameRegions(ret.med_data) /\ SameRegions(ret.std_data)

\* the chunks whose four statistics are all strictly positive
Retained ==
    {n \in DOMAIN args.med[0] :
        args.med[0][n] > 0 /\ args.std[0][n] > 0 /\ args.med[1][n] > 0 /\ args.std[1][n] > 0}
\* the place of retained chunk n in the arrays returned
PlaceOf(n) == Cardinality({m \in Retained : m < n})
\* reference median over MUSE median of chunk n
Ratio(n) == <<args.med[1][n], args.med[0][n]>>
\* v is the median of the ratios of the retained chunks: the middle one in order,
\* the mean of the two middle ones when their number is even, nan when there is none
MiddleAt(n, k) ==
    /\ Cardinality({m \in Retained : FracLess(Ratio(m), Ratio(n))}) <= k
    /\ Cardinality({m \in Retained : ~FracLess(Ratio(n), Ratio(m))}) > k
IsMedianOfRetained(v) ==
    LET m == Cardinality(Retained)
    IN IF m = 0 THEN v = NaN
       ELSE \E lo, hi \in Retained :
               /\ MiddleAt(lo, (m - 1) \div 2)
               /\ MiddleAt(hi, m \div 2)
               /\ v[2] # 0
               /\ 2 * v[1] * Ratio(lo)[2] * Ratio(hi)[2] =
                      v[2] * (Ratio(lo)[1] * Ratio(hi)[2] + Ratio(hi)[1] * Ratio(lo)[2])

\* C21: the fit uses exactly the chunks in which the median and the robust scale of
\* both datasets are strictly positive: the arrays x, y, sx, sy returned hold those
\* chunks and no other, the same chunk at the same place in all four, and the
\* first guess of the slope is the median of reference median over MUSE median
\* taken over those chunks only.
C21_FitOnPositiveChunks ==
    pc.at = "returned" /\ ret.exc = "none" =>
        /\ \A a \in {ret.x, ret.y, ret.sx, ret.sy} : DOMAIN a = Range(Cardinality(Retained))
        /\ \A n \in Retained :
              /\ ret.x[PlaceOf(n)] = args.med[0][n]
              /\ ret.sx[PlaceOf(n)] = args.std[0][n]
              /\ ret.y[PlaceOf(n)] = args.med[1][n]
              /\ ret.sy[PlaceOf(n)] = args.std[1][n]
        /\ ret.result.x = ret.x /\ ret.result.y = ret.y
        /\ ret.result.sx = ret.sx /\ ret.result.sy = ret.sy
        /\ IsMedianOfRetained(ret.result.beta0[2])

C21_Witness ==
    /\ pc.at = "returned"
    /\ ret.exc = "none"
    /\ Len0(args.med[0]) = 3
    /\ Retained = {0, 2}
    /\ args.med[0][1] > 0 /\ args.std[0][1] > 0 /\ args.med[1][1] > 0
    /\ ~FracEq(Ratio(0), Ratio(2))
    /\ ret.x[1] = args.med[0][2]
    /\ ret.y[1] = args.med[1][2]
    /\ ~FracEq(ret.result.beta0[2], Ratio(0))
    /\ ~FracEq(ret.result.beta0[2], Ratio(2))

\* C22: the fit fails with an insufficient-chunks error, and no normalisation record
\* is stored, whenever fewer than 2 chunks pass the positivity filter, none included.
C22_TooFewChunksRejected ==
    pc.at \in {"returned", "stored"} /\ Cardinality(Retained) < 2 =>
        /\ ret.exc # "none"
        /\ pc.at # "stored"
        /\ self.ima_normfactor[0] = Float0

\* the cells of the correlation surface that hold its largest value
MaxCells ==
    {c \in Range(Height(ret.ccor)) \X Range(Width(ret.ccor)) :
        \A d \in Range(Height(ret.ccor)) \X Range(Width(ret.ccor)) :
            ret.ccor[d[1]][d[2]] <= ret.ccor[c[1]][c[2]]}
\* c comes before d when the surface is read row after row
RowMajorBefore(c, d) == c[1] < d[1] \/ (c[1] = d[1] /\ c[2] < d[2])

\* C23: the coarse peak is the index of the maximum of the full correlation surface,
\* of size (Hr+Ht-1, Wr+Wt-1); among several cells with the maximum value it is the
\* first in row-major order.
C23_FirstMaximumRowMajor ==
    pc.at = "returned" =>
        /\ Height(ret.ccor) = Height(args.ima_ref) + Height(args.ima_muse) - 1
        /\ Width(ret.ccor) = Width(args.ima_ref) + Width(args.ima_muse) - 1
        /\ <<ret.maxy, ret.maxx>> \in MaxCells
        /\ \A c \in MaxCells : ~RowMajorBefore(c, <<ret.maxy, ret.maxx>>)

C23_Witness ==
    /\ pc.at = "returned"
    /\ Height(args.ima_ref) # Width(args.ima_ref)
    /\ \E c, d \in MaxCells :
          /\ c = <<ret.maxy, ret.maxx>>
          /\ c[1] < d[1] /\ d[2] < c[2]
    /\ ret.ccor[ret.maxy][ret.maxx] > 1

\* ima_muse is ima_ref translated by (dx, dy), nothing bright lost at the edges
TranslatedBy(dx, dy) ==
    /\ args.ima_ref \in FieldImages
    /\ KeepsInside(args.ima_ref, dx, dy)
    /\ args.ima_muse = Translate(args.ima_ref, dx, dy)

\* C24: for a target image that is the reference translated by (dx, dy), with
\* |dx|, |dy| < subim_window, find_cross_peak returns (dx, dy): zero for no
\* translation, x and y not swapped.  (Translations by whole pixels: the fitted mean
\* is then the maximum of the surface, and "within 0.1 pixel" is equality.)
C24_TranslationRecovered ==
    pc.at = "returned" =>
        \A d \in Translations :
            TranslatedBy(d[1], d[2]) =>
                /\ ret.fitted
                /\ ret.xpix_cross = d[1]
                /\ ret.ypix_cross = d[2]

\* the region border trimming is to keep: border pixels off each of the four edges
Trimmed(data, border) ==
    LET h == data.shape[1] - 2 * border
        w == data.shape[2] - 2 * border
    IN [shape |-> <<IF h < 0 THEN 0 ELSE h, IF w < 0 THEN 0 ELSE w>>,
        from |-> [c \in Range(h) \X Range(w) |-> <<c[1] + border, c[2] + border>>]]
ZeroArea(region) == region.shape[1] * region.shape[2] = 0
\* C25: for every border >= 0, border 0 included, _prepare_image, _filtermed_image
\* and _get_flux_range keep of an H x W image the (H-2b) x (W-2b) region that lies
\* border pixels inside each of the four edges, and _prepare_image fails exactly
\* when that region has zero area.
C25_BorderTrimmedFromEachEdge ==
    pc.at = "returned" =>
        /\ ~ZeroArea(Trimmed(args.data, args.border)) =>
               /\ ret.region.shape = Trimmed(args.data, args.border).shape
               /\ ret.region.from = Trimmed(args.data, args.border).from
        /\ ret.op = "_prepare_image" =>
               (ret.exc # "none" <=> ZeroArea(Trimmed(args.data, args.border)))

\* the strictly positive pixels of the trimmed image with nan set to zero
PositivePixels(data, border) ==
    LET kept == Trimmed(data, border).from
        places == {c \in DOMAIN kept : nan_to_num(data.pix[kept[c]]) > 0}
    IN [c \in places |-> nan_to_num(data.pix[kept[c]])]
\* C26: _get_flux_range returns the low-th and the high-th percentile, for the low
\* and high the caller passes, of the strictly positive pixels of the trimmed image
\* with non-finite values zeroed, and fails when no pixel is positive.
C26_FluxRangeOfPassedPercentiles ==
    (pc.at = "returned" /\ ret.op = "_get_flux_range") =>
        IF DOMAIN PositivePixels(args.data, args.border) = {}
        THEN ret.exc # "none"
        ELSE /\ ret.exc = "none"
             /\ ret.range.lperc = percentile(PositivePixels(args.data, args.border),
                                             args.percentiles[1])
             /\ ret.range.hperc = percentile(PositivePixels(args.data, args.border),
                                             args.percentiles[2])

\* C27: once find_ncross_peak has recorded the cross-correlation offsets, no later
\* init_guess_offset, shift_arcsecond, run or save_fits_offset_table changes them:
\* cross_off_pixel[i] and cross_off_arcsec[i] keep, for every image i, the values
\* find_ncross_peak wrote.
C27_CrossOffsetsKept ==
    (Ready /\ ~pc.checkmode) =>
        \A i \in Range(self.nimages) :
            /\ self.cross_off_pixel[i] = find_cross_peak(self.list_muse_hdu[i])
            /\ self.cross_off_arcsec[i] =
                   pixel_to_arcsec(self.list_muse_hdu[i],
                                   find_cross_peak(self.list_muse_hdu[i]))

\* C28: find_norm_factor called with extra_arcsec or extra_pixel applies that offset
\* to every image: after the call extra_off_arcsec[i] is the offset supplied,
\* converted through the matrix of image i when given in pixels, for every i and
\* not only for the first image.
C28_ExtraOffsetForEveryImage ==
    (Ready /\ calls > 0 /\ exc = "none") =>
        \A i \in Range(self.nimages) :
            self.extra_off_arcsec[i] = PopExtra(norm_kwargs, self.list_muse_hdu[i]).extra_arcsec

\* row i of table t has the value v in column c
Cell(t, c, i, v) == c \in DOMAIN t /\ i \in DOMAIN t[c] /\ t[c][i] = v
\* table t holds, one row per image and in the order of the images, the total
\* offsets, the cross-correlation offsets, the flux scales and the timestamps of s
HoldsLedger(t, s) ==
    /\ NRows(t) = s.nimages
    /\ \A i \in Range(s.nimages) :
          /\ Cell(t, "RA_OFFSET", i, Div3600(s.total_off_arcsec[i][1]))
          /\ Cell(t, "DEC_OFFSET", i, Div3600(s.total_off_arcsec[i][2]))
          /\ Cell(t, "RA_CROSS_OFFSET", i, Div3600(s.cross_off_arcsec[i][1]))
          /\ Cell(t, "DEC_CROSS_OFFSET", i, Div3600(s.cross_off_arcsec[i][2]))
          /\ Cell(t, "FLUX_SCALE", i, s.ima_normfactor[i])
          /\ i \in DOMAIN s.ima_dateobs
          /\ Cell(t, "DATE_OBS", i, s.ima_dateobs[i])
\* C29: save_fits_offset_table with overwrite False on a file that exists writes
\* nothing and leaves the file as it was; with overwrite True, or when no file
\* exists, the file named by the output name with the suffix before ".fits" holds
\* afterwards the ledger's current total offsets, cross-correlation offsets, flux
\* scales and timestamps.
C29_SaveWritesCurrentLedger ==
    [][\A overwrite \in BOOLEAN, suffix \in Suffixes :
          CallSave(OffsetTableName, overwrite, suffix) =>
              LET out == ReplaceFits(OffsetTableName, suffix)
              IN IF out \in DOMAIN disk /\ ~overwrite
                 THEN disk' = disk
                 ELSE /\ out \in DOMAIN disk'
                      /\ HoldsLedger(disk'[out], self)
                      /\ \A f \in DOMAIN disk \ {out} :
                            f \in DOMAIN disk' /\ disk'[f] = disk[f]]_vars

\* C30: a ledger that can be saved, built in normal mode or in check mode, holds one
\* timestamp per image in the order of the images (len(ima_dateobs) = nimages), and
\* saving it writes a table of nimages rows whose row i carries the total offset,
\* the cross-correlation offset, the flux scale and the DATE-OBS of image i.
C30_OneTimestampPerImage ==
    Ready =>
        /\ Len0(self.ima_dateobs) = self.nimages
        /\ \A i \in Images :
              /\ i \in DOMAIN self.ima_dateobs
              /\ self.ima_dateobs[i] = DateObs(self.list_muse_images[i])
        /\ LET r == save_fits_offset_table(self, OffsetTableName, TRUE, "")
           IN /\ r.wrote
              /\ HoldsLedger(r.disk[OffsetTableName], r.self)
====
